---- MODULE Spec2Model ----
(***************************************************************************)
(* A model of pat.py: the Pattern value object, the .PAT codec (loads and  *)
(* dumps) and the two raster conversions (to_image, from_image).           *)
(*                                                                         *)
(* Byte buffers are functions from offsets 0..n-1 to 0..255.  Python       *)
(* sequences are TLA+ sequences, so the Python index i is the TLA+ index   *)
(* i+1.  An optional value (None or a value) is a sequence of length 0 or  *)
(* 1.  A call that raises yields [err |-> <exception name>, val |-> <<>>]. *)
(***************************************************************************)
EXTENDS Integers, Sequences, FiniteSets, TLC

VARIABLES
    pat,    \* the Pattern the caller holds: <<>> or <<pattern record>>
    via,    \* how pat was made: "none", "Pattern", "loads" or "from_image"
    data,   \* the byte string the caller holds (empty domain when none)
    orig,   \* the Pattern that dumps produced data from: <<>> or <<record>>
    img,    \* the image the last to_image returned
    call,   \* the last call and its arguments
    err,    \* "none" or the name of the exception the last call raised
    ret,    \* the value the last rows_per_inch returned
    trips   \* number of dumps calls in the current chain

vars == <<pat, via, data, orig, img, call, err, ret, trips>>

----------------------------------------------------------------------------
(* Bounds of the model *)

MaxW == 2
MaxH == 2
MaxDrop == 2
MaxTrips == 1

(* Program constants *)

MAX_CHANNELS == 256
GETCOLORS_MAXCOLORS == 256

U16 == 0..65535
Byte == 0..255

----------------------------------------------------------------------------
(* Results of calls *)

Raise(e) == [err |-> e, val |-> <<>>]
Return(v) == [err |-> "none", val |-> v]

NoData == [j \in {} |-> 0]
NoImage == [size |-> <<0, 0>>, px |-> <<>>]

BufLen(s) == Cardinality(DOMAIN s)

----------------------------------------------------------------------------
(* struct and ctypes *)

create_string_buffer(n) == [j \in 0..(n - 1) |-> 0]

pack_into_BE_H(b, off, v) == [b EXCEPT ![off] = v \div 256, ![off + 1] = v % 256]

pack_into_LE_H(b, off, v) == [b EXCEPT ![off] = v % 256, ![off + 1] = v \div 256]

pack_into_B(b, off, v) == [b EXCEPT ![off] = v]

pack_into_nB(b, off, values) ==
    [j \in DOMAIN b |->
        IF j >= off /\ j < off + Len(values) THEN values[j - off + 1] ELSE b[j]]

unpack_from_BE_H(s, off) == s[off] * 256 + s[off + 1]

unpack_from_LE_H(s, off) == s[off] + s[off + 1] * 256

unpack_from_nB(s, n, off) == [i \in 1..n |-> s[off + i - 1]]

----------------------------------------------------------------------------
(* class Pattern *)

(* __init__ with the limit test as >= *)
Pattern_init_ge(size, drop, channels, bitmap, qual) ==
    IF Len(channels) >= MAX_CHANNELS
    THEN Raise("TooManyChannels")
    ELSE Return(<<[size |-> size, drop |-> drop, channels |-> channels,
                   bitmap |-> bitmap, qual |-> qual]>>)

Pattern(size, drop, channels, bitmap, qual) ==
    IF Len(channels) > MAX_CHANNELS
    THEN Raise("TooManyChannels")
    ELSE Return(<<[size |-> size, drop |-> drop, channels |-> channels,
                   bitmap |-> bitmap, qual |-> qual]>>)

(* rows_per_inch with the old range ending below 79 *)
rows_per_inch_lt79(self) ==
    IF self.qual >= 71 /\ self.qual < 79
    THEN self.qual % 10
    ELSE IF self.qual >= 501 /\ self.qual <= 1099
            /\ self.qual % 100 >= 3 /\ self.qual % 100 <= 24
         THEN self.qual % 100
         ELSE 0

rows_per_inch(self) ==
    IF self.qual >= 71 /\ self.qual <= 79
    THEN self.qual % 10
    ELSE IF self.qual >= 501 /\ self.qual <= 1099
            /\ self.qual % 100 >= 3 /\ self.qual % 100 <= 24
         THEN self.qual % 100
         ELSE 0

----------------------------------------------------------------------------
(* The image collaborator (Image, ImageChops): an image is its size and   *)
(* its pixels in row-major order                                           *)

Image_new(size) ==
    [size |-> size, px |-> [k \in 1..(size[1] * size[2]) |-> <<0, 0, 0>>]]

getpixel(image, x, y) == image.px[y * image.size[1] + x + 1]

getdata(image) == image.px

putdata(image, pixels) ==
    [image EXCEPT !.px = [k \in 1..Len(image.px) |->
        IF k <= Len(pixels) THEN pixels[k] ELSE image.px[k]]]

paste(image, src, at) ==
    [image EXCEPT !.px = [k \in 1..Len(image.px) |->
        LET x == (k - 1) % image.size[1]
            y == (k - 1) \div image.size[1]
        IN IF /\ x >= at[1] /\ x < at[1] + src.size[1]
              /\ y >= at[2] /\ y < at[2] + src.size[2]
           THEN getpixel(src, x - at[1], y - at[2])
           ELSE image.px[k]]]

offset(image, xoffset, yoffset) ==
    [image EXCEPT !.px = [k \in 1..Len(image.px) |->
        LET x == (k - 1) % image.size[1]
            y == (k - 1) \div image.size[1]
        IN getpixel(image, (x - xoffset) % image.size[1],
                           (y - yoffset) % image.size[2])]]

Reverse(seq) == [i \in 1..Len(seq) |-> seq[Len(seq) + 1 - i]]

(* getcolors(): None (<<>>) when the image has more than maxcolors        *)
(* colours, else <<the list of (count, colour)>>.  The order of the list  *)
(* is the collaborator's: by first appearance, or the reverse of it.      *)
getcolors(image, order) ==
    LET px == image.px
        IsFirst(k) == \A j \in 1..(k - 1) : px[j] # px[k]
        firsts == SelectSeq([k \in 1..Len(px) |-> k], IsFirst)
        colors == [i \in 1..Len(firsts) |->
                      <<Cardinality({k \in 1..Len(px) : px[k] = px[firsts[i]]}),
                        px[firsts[i]]>>]
    IN IF Len(firsts) > GETCOLORS_MAXCOLORS
       THEN <<>>
       ELSE <<IF order = "first" THEN colors ELSE Reverse(colors)>>

(* list.index(x), as a Python index *)
index(list, x) ==
    (CHOOSE i \in 1..Len(list) :
        list[i] = x /\ \A j \in 1..(i - 1) : list[j] # x) - 1

----------------------------------------------------------------------------
(* Pattern.to_image *)

(* the loop of lines 124-126, from repeat on; it returns the image *)
RECURSIVE paste_repeats(_, _, _, _, _)
(* the loop without the ImageChops.offset of line 126 *)
paste_repeats_no_offset(self, image, pattern, repeat, repeats) ==
    IF repeat >= repeats
    THEN image
    ELSE paste_repeats(self,
                       paste(image, pattern, <<self.size[1] * repeat, 0>>),
                       pattern,
                       repeat + 1, repeats)

paste_repeats(self, image, pattern, repeat, repeats) ==
    IF repeat >= repeats
    THEN image
    ELSE paste_repeats(self,
                       paste(image, pattern, <<self.size[1] * repeat, 0>>),
                       offset(pattern, 0, self.drop),
                       repeat + 1, repeats)

to_image(self, full_repeat) ==
    IF full_repeat /\ self.drop = 0
    THEN Raise("ZeroDivisionError")
    ELSE LET repeats == IF full_repeat THEN self.size[2] \div self.drop ELSE 1
             image == Image_new(<<self.size[1] * repeats, self.size[2]>>)
         IN IF \E k \in 1..Len(self.bitmap) : self.bitmap[k] >= Len(self.channels)
            THEN Raise("IndexError")
            ELSE LET pixels == [k \in 1..Len(self.bitmap) |->
                                   self.channels[self.bitmap[k] + 1]]
                 IN IF Len(pixels) > self.size[1] * self.size[2]
                    THEN Raise("TypeError")
                    ELSE LET pattern == putdata(Image_new(self.size), pixels)
                         IN Return(paste_repeats(self, image, pattern, 0, repeats))

----------------------------------------------------------------------------
(* Pattern.from_image; drop is <<>> when the argument is left out *)

from_image(image, drop, order) ==
    LET colors == getcolors(image, order)
    IN IF colors = <<>>
       THEN Raise("TypeError")
       ELSE LET channels == [i \in 1..Len(colors[1]) |-> colors[1][i][2]]
                pixels == getdata(image)
                bitmap == [k \in 1..Len(pixels) |-> index(channels, pixels[k])]
            IN Pattern(image.size,
                       IF drop = <<>> \/ drop[1] = 0 THEN image.size[2] ELSE drop[1],
                       channels, bitmap, 0)

----------------------------------------------------------------------------
(* loads *)

(* loads building 255 channels instead of 256 *)
loads_255(s) ==
    IF BufLen(s) < 1536
    THEN Raise("struct.error")
    ELSE LET width == unpack_from_BE_H(s, 0)
             height == unpack_from_BE_H(s, 2)
             drop == unpack_from_LE_H(s, 30)
             greens == unpack_from_nB(s, 256, 512)
             reds == unpack_from_nB(s, 256, 768)
             blues == unpack_from_nB(s, 256, 1024)
             channels == [i \in 1..255 |-> <<reds[i], greens[i], blues[i]>>]
         IN IF BufLen(s) < 1536 + width * height
            THEN Raise("struct.error")
            ELSE LET bitmap == unpack_from_nB(s, width * height, 1536)
                     qual == unpack_from_BE_H(s, 18)
                 IN Pattern(<<width, height>>, drop, channels, bitmap, qual)

loads(s) ==
    IF BufLen(s) < 1536
    THEN Raise("struct.error")
    ELSE LET width == unpack_from_BE_H(s, 0)
             height == unpack_from_BE_H(s, 2)
             drop == unpack_from_LE_H(s, 30)
             greens == unpack_from_nB(s, 256, 512)
             reds == unpack_from_nB(s, 256, 768)
             blues == unpack_from_nB(s, 256, 1024)
             channels == [i \in 1..256 |-> <<reds[i], greens[i], blues[i]>>]
         IN IF BufLen(s) < 1536 + width * height
            THEN Raise("struct.error")
            ELSE LET bitmap == unpack_from_nB(s, width * height, 1536)
                     qual == unpack_from_BE_H(s, 18)
                 IN Pattern(<<width, height>>, drop, channels, bitmap, qual)

----------------------------------------------------------------------------
(* dumps *)

(* struct.pack_into raises struct.error for a value its format cannot hold *)
Packable(pattern) ==
    /\ pattern.size[1] \in U16
    /\ pattern.size[2] \in U16
    /\ pattern.drop \in U16
    /\ \A i \in 1..Len(pattern.channels) :
          \A c \in 1..3 : pattern.channels[i][c] \in Byte
    /\ \A k \in 1..Len(pattern.bitmap) : pattern.bitmap[k] \in Byte
    /\ pattern.qual > 0 => pattern.qual \in U16

(* one pass of the loop body of lines 184-187, for Python index i *)
write_channel(b, channels, i) ==
    LET channel == channels[i + 1]
        b1 == pack_into_B(b, 513 + i, channel[2])
        b2 == pack_into_B(b1, 768 + i, channel[1])
        b3 == pack_into_B(b2, 1025 + i, channel[3])
    IN b3

(* the loop for i = lo, lo + 1, ..., hi - 1 in that order.  The range is  *)
(* halved, first half applied first, and the buffer after the first half  *)
(* is evaluated (its length taken) before the second half starts, so that *)
(* the evaluation stays shallow; the writes and their order are the       *)
(* loop's.                                                                *)
RECURSIVE write_channels(_, _, _, _)
write_channels(b, channels, lo, hi) ==
    IF hi <= lo
    THEN b
    ELSE IF hi = lo + 1
         THEN write_channel(b, channels, lo)
         ELSE LET mid == (lo + hi) \div 2
                  first == write_channels(b, channels, lo, mid)
              IN IF BufLen(first) >= 0
                 THEN write_channels(first, channels, mid, hi)
                 ELSE first

(* dumps writing qual little-endian *)
dumps_qual_LE(pattern) ==
    IF ~Packable(pattern)
    THEN Raise("struct.error")
    ELSE LET buf0 == create_string_buffer(1536 + Len(pattern.bitmap))
             buf1 == pack_into_BE_H(buf0, 0, pattern.size[1])
             buf2 == pack_into_BE_H(buf1, 2, pattern.size[2])
             buf3 == pack_into_LE_H(buf2, 30, pattern.drop)
             buf4 == write_channels(buf3, pattern.channels, 0, Len(pattern.channels))
             buf5 == pack_into_nB(buf4, 1536, pattern.bitmap)
             buf6 == IF pattern.qual > 0
                     THEN pack_into_LE_H(buf5, 18, pattern.qual)
                     ELSE buf5
         IN Return(buf6)

dumps(pattern) ==
    IF ~Packable(pattern)
    THEN Raise("struct.error")
    ELSE LET buf0 == create_string_buffer(1536 + Len(pattern.bitmap))
             buf1 == pack_into_BE_H(buf0, 0, pattern.size[1])
             buf2 == pack_into_BE_H(buf1, 2, pattern.size[2])
             buf3 == pack_into_LE_H(buf2, 30, pattern.drop)
             buf4 == write_channels(buf3, pattern.channels, 0, Len(pattern.channels))
             buf5 == pack_into_nB(buf4, 1536, pattern.bitmap)
             buf6 == IF pattern.qual > 0
                     THEN pack_into_BE_H(buf5, 18, pattern.qual)
                     ELSE buf5
         IN Return(buf6)

----------------------------------------------------------------------------
(* Inputs *)

ChannelCounts == {0, 2, MAX_CHANNELS - 1, MAX_CHANNELS, MAX_CHANNELS + 1}

ColourOf(i) == <<(3 * i + 1) % 256, (5 * i + 2) % 256, (7 * i + 3) % 256>>

ChannelsOf(n) == [i \in 1..n |-> ColourOf(i - 1)]

BitmapBases == {0, 254}

BitmapOf(n, base) == [k \in 1..n |-> (base + k - 1) % 256]

Quals == {0, 75, 612}

(* A .PAT file as read from disk: a header for w x h, every other byte     *)
(* (mul * offset + add) mod 256, and extra bytes more (or fewer) than the  *)
(* 1536 + w * h the header asks for.                                       *)
Fills == {<<0, 255>>, <<1, 0>>}

FileOf(w, h, fill, extra) ==
    LET n == 1536 + w * h + extra
        raw == [j \in 0..(n - 1) |-> (fill[1] * j + fill[2]) % 256]
    IN pack_into_BE_H(pack_into_BE_H(raw, 0, w), 2, h)

(* Images: w x h images whose pixels cycle through m distinct colours,    *)
(* small ones and one-row ones at the collaborator's colour limit         *)
PixelColour(i) == <<i % 256, i \div 256, (7 * i + 3) % 256>>

ImageOf(w, h, m) ==
    [size |-> <<w, h>>, px |-> [k \in 1..(w * h) |-> PixelColour((k - 1) % m)]]

SmallImages == {ImageOf(w, h, m) : w \in 1..MaxW, h \in 1..MaxH, m \in 1..3}

LargeImages ==
    {ImageOf(GETCOLORS_MAXCOLORS, 1, GETCOLORS_MAXCOLORS),
     ImageOf(GETCOLORS_MAXCOLORS + 1, 1, GETCOLORS_MAXCOLORS),
     ImageOf(GETCOLORS_MAXCOLORS + 1, 1, GETCOLORS_MAXCOLORS + 1)}

Images == SmallImages \cup LargeImages

Drops == {<<>>} \cup {<<d>> : d \in 0..MaxDrop}

----------------------------------------------------------------------------
(* Actions.  The functions are pure, so a chain of calls is followed once: *)
(* inputs come in at the start, and a Pattern is used by the call right    *)
(* after the one that made it.                                             *)

Makers == {"Pattern", "loads", "from_image"}

Construct(size, drop, channels, bitmap, qual) ==
    LET r == Pattern(size, drop, channels, bitmap, qual)
    IN /\ call.op = "import"
       /\ pat' = r.val
       /\ via' = IF r.err = "none" THEN "Pattern" ELSE "none"
       /\ err' = r.err
       /\ call' = [op |-> "Pattern", size |-> size, drop |-> drop,
                   channels |-> channels, bitmap |-> bitmap, qual |-> qual]
       /\ data' = NoData
       /\ orig' = <<>>
       /\ img' = NoImage
       /\ ret' = 0
       /\ trips' = 0

ReadFile(s) ==
    /\ call.op = "import"
    /\ data' = s
    /\ call' = [op |-> "read"]
    /\ err' = "none"
    /\ UNCHANGED <<pat, via, orig, img, ret, trips>>

Loads ==
    LET r == loads(data)
    IN /\ call.op \in {"read", "dumps"}
       /\ err = "none"
       /\ pat' = r.val
       /\ via' = IF r.err = "none" THEN "loads" ELSE "none"
       /\ err' = r.err
       /\ call' = [op |-> "loads"]
       /\ img' = NoImage
       /\ ret' = 0
       /\ UNCHANGED <<data, orig, trips>>

Dumps ==
    /\ Len(pat) = 1
    /\ call.op \in Makers
    /\ trips < MaxTrips
    /\ LET r == dumps(pat[1])
       IN /\ data' = r.val
          /\ err' = r.err
          /\ orig' = IF r.err = "none" THEN pat ELSE <<>>
    /\ call' = [op |-> "dumps"]
    /\ img' = NoImage
    /\ ret' = 0
    /\ trips' = trips + 1
    /\ UNCHANGED <<pat, via>>

ToImage(full_repeat) ==
    LET r == to_image(pat[1], full_repeat)
    IN /\ Len(pat) = 1
       /\ call.op \in Makers
       /\ img' = IF r.err = "none" THEN r.val ELSE NoImage
       /\ err' = r.err
       /\ call' = [op |-> "to_image", full_repeat |-> full_repeat]
       /\ ret' = 0
       /\ UNCHANGED <<pat, via, data, orig, trips>>

FromImage(image, drop, order) ==
    LET r == from_image(image, drop, order)
    IN /\ call.op = "import"
       /\ pat' = r.val
       /\ via' = IF r.err = "none" THEN "from_image" ELSE "none"
       /\ err' = r.err
       /\ call' = [op |-> "from_image", image |-> image, drop |-> drop]
       /\ data' = NoData
       /\ orig' = <<>>
       /\ img' = NoImage
       /\ ret' = 0
       /\ trips' = 0

RowsPerInch ==
    /\ Len(pat) = 1
    /\ call.op \in Makers \cup {"import"}
    /\ ret' = rows_per_inch(pat[1])
    /\ call' = [op |-> "rows_per_inch"]
    /\ err' = "none"
    /\ UNCHANGED <<pat, via, data, orig, img, trips>>

----------------------------------------------------------------------------

Init ==
    /\ pat = <<>>
    /\ via = "none"
    /\ data = NoData
    /\ orig = <<>>
    /\ img = NoImage
    /\ call = [op |-> "import"]
    /\ err = "none"
    /\ ret = 0
    /\ trips = 0

Next ==
    \/ \E w \in 1..MaxW, h \in 1..MaxH, drop \in 0..MaxDrop, n \in ChannelCounts,
          base \in BitmapBases, qual \in Quals :
            Construct(<<w, h>>, drop, ChannelsOf(n), BitmapOf(w * h, base), qual)
    \/ \E w \in 0..MaxW, h \in 0..MaxH, fill \in Fills, extra \in {-1, 0, 1} :
            ReadFile(FileOf(w, h, fill, extra))
    \/ Loads
    \/ Dumps
    \/ \E full_repeat \in BOOLEAN : ToImage(full_repeat)
    \/ \E image \in Images, drop \in Drops, order \in {"first", "last"} :
            FromImage(image, drop, order)
    \/ RowsPerInch

Spec == Init /\ [][Next]_vars

(* The quality code alone: every 16-bit qual, one rows_per_inch each *)

InitQual ==
    \E qual \in U16 :
        /\ pat = Pattern(<<1, 1>>, 1, ChannelsOf(1), BitmapOf(1, 0), qual).val
        /\ via = "Pattern"
        /\ data = NoData
        /\ orig = <<>>
        /\ img = NoImage
        /\ call = [op |-> "import"]
        /\ err = "none"
        /\ ret = 0
        /\ trips = 0

NextQual == RowsPerInch

SpecQual == InitQual /\ [][NextQual]_vars

----------------------------------------------------------------------------
(* Properties *)

(* the data-model invariants of a Pattern *)
Invariants(p) ==
    /\ Len(p.channels) <= 256
    /\ Len(p.bitmap) = p.size[1] * p.size[2]
    /\ \A k \in 1..Len(p.bitmap) : p.bitmap[k] >= 0 /\ p.bitmap[k] < Len(p.channels)

ValidPattern(p) ==
    /\ Invariants(p)
    /\ p.size[1] \in U16 /\ p.size[2] \in U16 /\ p.drop \in U16 /\ p.qual \in U16

Pixel(image, x, y) == image.px[y * image.size[1] + x + 1]

NumColours(image) == Cardinality({image.px[k] : k \in 1..Len(image.px)})

(* C1: for every valid Pattern p, loads(dumps(p)) has the size, drop,      *)
(* bitmap and qual of p, and its first len(p.channels) channels are        *)
(* p.channels, component for component.                                    *)
C1_RoundTrip ==
    (call.op = "loads" /\ Len(orig) = 1 /\ ValidPattern(orig[1])) =>
        /\ err = "none"
        /\ pat[1].size = orig[1].size
        /\ pat[1].drop = orig[1].drop
        /\ pat[1].bitmap = orig[1].bitmap
        /\ pat[1].qual = orig[1].qual
        /\ \A i \in 1..Len(orig[1].channels) :
              pat[1].channels[i] = orig[1].channels[i]

(* C2: for every Pattern p with a 16-bit qual, dumps(p) holds qual         *)
(* big-endian at offsets 18-19 when qual > 0 and leaves both bytes zero    *)
(* when qual = 0, and loads(dumps(p)).qual = p.qual.                       *)
C2_QualRoundTrip ==
    /\ (call.op = "dumps" /\ err = "none" /\ orig[1].qual \in U16) =>
          IF orig[1].qual > 0
          THEN data[18] = orig[1].qual \div 256 /\ data[19] = orig[1].qual % 256
          ELSE data[18] = 0 /\ data[19] = 0
    /\ (call.op = "loads" /\ Len(orig) = 1 /\ orig[1].qual \in U16
        /\ Len(orig[1].bitmap) = orig[1].size[1] * orig[1].size[2]) =>
          err = "none" /\ pat[1].qual = orig[1].qual

C2_Witness ==
    /\ call.op = "loads" /\ Len(orig) = 1 /\ err = "none"
    /\ orig[1].qual = 612 /\ pat[1].qual = 612
    /\ data[18] = 2 /\ data[19] = 100

(* C3: rows_per_inch is qual mod 10 for 71 <= qual <= 79, qual mod 100 for *)
(* 501 <= qual <= 1099 with 3 <= qual mod 100 <= 24, and 0 for every other *)
(* 16-bit qual; the two ranges are disjoint.                               *)
C3_RowsPerInch ==
    call.op = "rows_per_inch" =>
        LET qual == pat[1].qual
            old == 71 <= qual /\ qual <= 79
            new == /\ 501 <= qual /\ qual <= 1099
                   /\ 3 <= qual % 100 /\ qual % 100 <= 24
        IN /\ old => ret = qual % 10
           /\ new => ret = qual % 100
           /\ (~old /\ ~new) => ret = 0
           /\ ~(old /\ new)
           /\ qual \in {0, 70, 80, 500, 502, 525, 1100} => ret = 0

C3_Witness ==
    call.op = "rows_per_inch" /\ pat[1].qual = 79 /\ ret = 9

(* C4: constructing a Pattern fails with TooManyChannels exactly when      *)
(* there are more than 256 channels; otherwise the Pattern holds the       *)
(* arguments given, and a failed construction leaves no Pattern.           *)
C4_TooManyChannels ==
    call.op = "Pattern" =>
        IF Len(call.channels) > 256
        THEN err = "TooManyChannels" /\ pat = <<>>
        ELSE /\ err = "none"
             /\ pat = <<[size |-> call.size, drop |-> call.drop,
                         channels |-> call.channels, bitmap |-> call.bitmap,
                         qual |-> call.qual]>>

C4_Witness ==
    call.op = "Pattern" /\ Len(call.channels) = 256 /\ err = "none" /\ Len(pat) = 1

(* C5: from_image fails with TooManyChannels for every image of more than  *)
(* 256 distinct colours and succeeds for every image of 1..256 colours.    *)
C5_FromImageTooManyChannels ==
    call.op = "from_image" =>
        /\ NumColours(call.image) > 256 => err = "TooManyChannels"
        /\ NumColours(call.image) \in 1..256 => err = "none"

(* C6: for a Pattern that meets the data-model invariants, with drop >= 1, *)
(* to_image(True) is size.width * (size.height div drop) wide and          *)
(* size.height high, and its k-th block of columns is the base image       *)
(* shifted down cyclically by (k * drop) mod height; to_image(False) has   *)
(* exactly size and is the bitmap expanded through channels.               *)
C6_ToImage ==
    (call.op = "to_image" /\ Invariants(pat[1])
     /\ (call.full_repeat => pat[1].drop >= 1)) =>
        LET p == pat[1]
            width == p.size[1]
            height == p.size[2]
            repeats == IF call.full_repeat THEN height \div p.drop ELSE 1
            Base(x, y) == p.channels[p.bitmap[y * width + x + 1] + 1]
        IN /\ err = "none"
           /\ img.size = <<width * repeats, height>>
           /\ Len(img.px) = width * repeats * height
           /\ \A k \in 0..(repeats - 1), x \in 0..(width - 1), y \in 0..(height - 1) :
                 Pixel(img, width * k + x, y) =
                     IF call.full_repeat
                     THEN Base(x, (y - ((k * p.drop) % height)) % height)
                     ELSE Base(x, y)

C6_Witness ==
    /\ call.op = "to_image" /\ call.full_repeat /\ err = "none"
    /\ Invariants(pat[1])
    /\ pat[1].drop >= 1
    /\ pat[1].size[2] \div pat[1].drop >= 2
    /\ pat[1].drop % pat[1].size[2] # 0
    /\ Pixel(img, 0, 0) # Pixel(img, pat[1].size[1], 0)

(* C7: to_image(True) on a Pattern with drop = 0 fails with InvalidDrop.   *)
C7_InvalidDrop ==
    (call.op = "to_image" /\ call.full_repeat /\ pat[1].drop = 0) =>
        err = "InvalidDrop"

(* C8: in dumps(p), byte 513+i is channels[i].green, byte 768+i is         *)
(* channels[i].red and byte 1025+i is channels[i].blue for every i, no     *)
(* palette write lands on a byte of another channel or component, and      *)
(* every other byte of 512..1535 is zero.                                  *)
C8_PaletteLayout ==
    (call.op = "dumps" /\ err = "none") =>
        LET channels == orig[1].channels
            n == Len(channels)
            written == {513 + i : i \in 0..(n - 1)} \cup {768 + i : i \in 0..(n - 1)}
                           \cup {1025 + i : i \in 0..(n - 1)}
        IN /\ \A i \in 0..(n - 1) :
                 /\ data[513 + i] = channels[i + 1][2]
                 /\ data[768 + i] = channels[i + 1][1]
                 /\ data[1025 + i] = channels[i + 1][3]
           /\ Cardinality(written) = 3 * n
           /\ \A j \in 512..1535 : j \notin written => data[j] = 0

(* C9: every Pattern that loads or from_image returns meets the data-model *)
(* invariants, and to_image on it never fails on a palette index.          *)
C9_Invariants ==
    /\ (via \in {"loads", "from_image"} /\ Len(pat) = 1) => Invariants(pat[1])
    /\ (via \in {"loads", "from_image"} /\ call.op = "to_image") => err # "IndexError"

C9_Witness ==
    /\ via = "loads" /\ Len(orig) = 0 /\ call.op = "to_image" /\ err = "none"
    /\ Len(pat[1].bitmap) >= 1
    /\ \E k \in 1..Len(pat[1].bitmap) : pat[1].bitmap[k] = 255

(* C10: from_image(image, drop) returns a Pattern whose drop is the drop   *)
(* argument for every specified value, 0 included, and the image's height  *)
(* when drop is left out; its qual is 0 and its size the image's size.     *)
C10_FromImageDrop ==
    (call.op = "from_image" /\ err = "none") =>
        /\ pat[1].drop = IF call.drop = <<>> THEN call.image.size[2] ELSE call.drop[1]
        /\ pat[1].qual = 0
        /\ pat[1].size = call.image.size

====
